---- MODULE Spec2Model ----
(***************************************************************************)
(* Verification model of the cooperative async primitives of the          *)
(* tarantool module:                                                       *)
(*   - fiber::async::Mutex       (src/tarantool/src/fiber/async/mutex.rs)  *)
(*   - fiber::async::Timeout     (src/tarantool/src/fiber/async/timeout.rs)*)
(*   - mpmc::fixed::ChannelBox   (src/tarantool/src/async/future.rs)       *)
(* Every component has its own specification (SpecMutex, SpecTimeout,      *)
(* SpecChan); the variables of the other components stay parked.           *)
(* Execution is single-threaded and cooperative: an action is the code a   *)
(* task runs from one suspension point to the next.                        *)
(***************************************************************************)
EXTENDS Integers, Sequences, FiniteSets, TLC

\* Option<T>: None is the empty sequence, Some(x) is <<x>>.
None == << >>
Some(x) == << x >>
IsSome(o) == Len(o) = 1
Unwrap(o) == o[1]

SeqToSet(s) == { s[i] : i \in 1 .. Len(s) }

(***************************************************************************)
(*                               STATE                                     *)
(***************************************************************************)

VARIABLES
    locked,     \* Mutex::locked
    wakers,     \* Mutex::wakers, a Vec<Waker>
    mvalue,     \* Mutex::data, the protected value (a counter)
    mpc,        \* per task: "idle", "new" (Lock created), "pending" (Lock
                \* polled to Pending), "held" (owns a MutexGuard)
    mwoken,     \* tasks with a Lock future whose waker was woken and that
                \* have not been polled since
    guards,     \* number of live MutexGuard objects
    mprog,      \* per task: "fresh", "incremented" (it incremented the value
                \* under the guard it holds), "released" (it dropped a guard)
    mlast       \* the last mutex operation and what it returned

mvars == << locked, wakers, mvalue, mpc, mwoken, guards, mprog, mlast >>

VARIABLES
    clock,          \* fiber::clock()
    future,         \* Timeout::future
    extra_check,    \* Timeout::extra_check
    deadline,       \* Timeout::deadline, an Option<Instant>
    tpc,            \* "none" (no Timeout yet), "built", "run" (the scheduler
                    \* is about to poll), "wait" (the scheduler's fiber is
                    \* suspended on the primitive), "done"
    ctx_deadline,   \* the wake-at reason the last poll left in the context
    tres,           \* what the last Timeout::poll returned
    innerRes,       \* what the inner poll of the last Timeout::poll returned
    polls,          \* number of Timeout::poll calls
    innerPolls,     \* number of polls of the wrapped task
    yields,         \* number of times the scheduler's fiber suspended
    pollClock,      \* the clock at the last Timeout::poll
    builtAt,        \* the clock when the Timeout was constructed
    builtDur,       \* the duration given to timeout(), None for deadline()
    signals,        \* number of signals received while waiting
    runs,           \* number of block_on calls that have returned
    prevRun         \* the Timeout of the previous block_on call, what it
                    \* returned and the poll counter it left

tvars == << clock, future, extra_check, deadline, tpc, ctx_deadline, tres,
            innerRes, polls, innerPolls, yields, pollClock, builtAt, builtDur,
            signals, runs, prevRun >>

VARIABLES
    N,          \* the const capacity of the ChannelBox
    data,       \* ChannelBox::data, slot -> value (0: holds no valid value)
    tail,       \* ChannelBox::tail
    head,       \* ChannelBox::head
    rx_count,   \* ChannelBox::rx_count (0 is None)
    tx_count,   \* ChannelBox::tx_count (0 is None)
    spc,        \* per sender task: "none" (no handle yet), "idle" (owns a
                \* Sender), "wait" (suspended in coord.wait() inside send),
                \* "woken" (released by wake(), not yet resumed), "gone"
                \* (its Sender was dropped)
    rpc,        \* the same per receiver task
    pushes,     \* number of values written by push_back; the k-th is k
    recvLog,    \* the values returned by receives, in order
    freed,      \* number of times the ChannelBox was freed
    boxDropped, \* the slots ChannelBox::drop dropped in place
    woke,       \* whether the last channel operation called coord.wake()
    panicked,   \* a panic!/assert! of the channel code fired
    clast       \* the last channel operation, what it returned and the
                \* occupancy and endpoint counts it found

cvars == << N, data, tail, head, rx_count, tx_count, spc, rpc, pushes,
            recvLog, freed, boxDropped, panicked, woke, clast >>

VARIABLES
    cells,      \* the Rc<Cell<Option<RawFd>>> allocations, cell -> descriptor
    cellOf,     \* per TcpStream handle: the cell its `fd` field points to
    hst,        \* per handle: "none" (not created), "live", "dropped"
    osTable,    \* the process's descriptor table, number -> "free", "sock"
                \* (the stream's socket) or "other" (some other open file)
    osCloses,   \* number of coio_close calls made by the stream
    stray,      \* number of OS calls of the stream that hit a descriptor
                \* other than its socket
    spanicked,  \* the debug-build panic! of close fired
    debug,      \* cfg!(debug_assertions)
    closedVia,  \* the call of close that took the descriptor out of its
                \* cell: the handle, the operation, the other live clones
    slast       \* the last stream operation: what it returned, the OS calls
                \* it made, the reason it registered, and the descriptor slot
                \* and live clones it found

svars == << cells, cellOf, hst, osTable, osCloses, stray, spanicked, debug,
            closedVia, slast >>

\* Two Timeouts joined or selected inside one top-level task
\* (tests::join_correct_timeout, tests::select_correct_timeout).
VARIABLES
    jclock,     \* fiber::clock()
    jmode,      \* "join" or "select"
    jorder,     \* the order in which the two Timeouts are polled
    jfut,       \* per Timeout: its wrapped task and its deadline
    jres,       \* per Timeout: the result of its last poll
    jat,        \* per Timeout: the clock of the poll that resolved it
    jctx,       \* the reasons registered during the last top-level poll
    jpc         \* "none", "run", "wait", "done"

jvars == << jclock, jmode, jorder, jfut, jres, jat, jctx, jpc >>

\* TcpStream::connect_timeout and its Connector.
VARIABLES
    cnpc,       \* "none", "start", "run", "wait", "done"
    cnfd,       \* the descriptor made by socket(), if any
    cnopen,     \* whether that descriptor is open
    cnres,      \* what connect_timeout returned
    cnclock,    \* the clock (Instant::now, fiber::clock)
    connector,  \* the Connector: its timeout and creation instant
    cnctx,      \* the wake-at instant registered by the last poll
    cnlast      \* the last poll of the Connector: what it saw and returned

nvars == << cnpc, cnfd, cnopen, cnres, cnclock, connector, cnctx, cnlast >>

vars == << mvars, tvars, cvars, svars, jvars, nvars >>

\* What the operations of one component leave alone.
notMutex == << tvars, cvars, svars, jvars, nvars >>
notTimeout == << mvars, cvars, svars, jvars, nvars >>
notChan == << mvars, tvars, svars, jvars, nvars >>
notTcp == << mvars, tvars, cvars, jvars, nvars >>
notJoin == << mvars, tvars, cvars, svars, nvars >>
notConnect == << mvars, tvars, cvars, svars, jvars >>

(***************************************************************************)
(*                               MUTEX                                     *)
(***************************************************************************)

\* Number of tasks contending for the one mutex.
NumTasks == 3
\* Cap on the protected counter, so that the state space is finite.
MaxValue == 3

Tasks == 1 .. NumTasks

\* The waker a task is polled with: tasks joined inside one block_on share
\* the executor's waker (tasks 1 and 2), a task on a fiber of its own has its
\* own waker.
WakerOf(t) == IF t <= 2 THEN 1 ELSE t - 1


MutexNew ==
    /\ locked = FALSE
    /\ wakers = << >>
    /\ mvalue = 0
    /\ mpc = [t \in Tasks |-> "idle"]
    /\ mwoken = {}
    /\ guards = 0
    /\ mprog = [t \in Tasks |-> "fresh"]
    /\ mlast = [op |-> "new", task |-> 0, res |-> "Mutex"]

\* Faulty variant: the waker is pushed even if it is stored already.
AddWakerAlways(ws, w) == Append(ws, w)
\* Mutex::add_waker: push unless a stored waker would wake the same task.
AddWaker(ws, w) ==
    IF \E i \in 1 .. Len(ws) : ws[i] = w THEN ws ELSE Append(ws, w)

\* The condition under which Mutex::try_lock and Lock::poll hand out a guard.
\* Faulty variant: a guard is handed out whatever the flag says.
CanAcquireIgnoringLock(isLocked) == TRUE
\* Faulty variant: a guard is never handed out.
CanAcquireNever(isLocked) == FALSE
CanAcquire(isLocked) == ~isLocked

\* The program runs until a call that never returns.
Running == mlast.res # "NoReturn"

\* Mutex::lock: creates the Lock future, touches nothing else.
MutexLock(t) ==
    /\ Running
    /\ mpc[t] = "idle"
    /\ mpc' = [mpc EXCEPT ![t] = "new"]
    /\ mlast' = [op |-> "lock", task |-> t, res |-> "Lock"]
    /\ UNCHANGED << locked, wakers, mvalue, mwoken, guards, mprog >>
    /\ UNCHANGED notMutex

\* Lock::poll, with MutexGuard::new on the Ready branch.
LockPoll(t) ==
    /\ Running
    /\ mpc[t] \in {"new", "pending"}
    /\ IF CanAcquire(locked)
         THEN /\ locked' = TRUE
              /\ guards' = guards + 1
              /\ mpc' = [mpc EXCEPT ![t] = "held"]
              /\ mlast' = [op |-> "poll", task |-> t, res |-> "Ready"]
              /\ UNCHANGED wakers
         ELSE /\ wakers' = AddWaker(wakers, WakerOf(t))
              /\ mpc' = [mpc EXCEPT ![t] = "pending"]
              /\ mlast' = [op |-> "poll", task |-> t, res |-> "Pending"]
              /\ UNCHANGED << locked, guards >>
    /\ mwoken' = mwoken \ {t}
    /\ UNCHANGED << mvalue, mprog >>
    /\ UNCHANGED notMutex

\* Mutex::try_lock, with MutexGuard::new on the Some branch.
TryLock(t) ==
    /\ Running
    /\ mpc[t] = "idle"
    /\ IF CanAcquire(locked)
         THEN /\ locked' = TRUE
              /\ guards' = guards + 1
              /\ mpc' = [mpc EXCEPT ![t] = "held"]
              /\ mlast' = [op |-> "try_lock", task |-> t, res |-> "Some"]
         ELSE /\ mlast' = [op |-> "try_lock", task |-> t, res |-> "None"]
              /\ UNCHANGED << locked, guards, mpc >>
    /\ UNCHANGED << wakers, mvalue, mwoken, mprog >>
    /\ UNCHANGED notMutex

\* DerefMut on the guard: `*lock += 1`.
GuardIncr(t) ==
    /\ Running
    /\ mpc[t] = "held"
    /\ mvalue < MaxValue
    /\ mvalue' = mvalue + 1
    /\ mprog' = [mprog EXCEPT ![t] = "incremented"]
    /\ mlast' = [op |-> "incr", task |-> t, res |-> "()"]
    /\ UNCHANGED << locked, wakers, mpc, mwoken, guards >>
    /\ UNCHANGED notMutex

\* Faulty variants of wake_all: only the first waker is woken; none is.
WakeFirst(ws) == IF ws = << >> THEN {} ELSE {ws[1]}
WakeNone(ws) == {}
\* Mutex::wake_all: the wakers on which wake() is called.
WakeAll(ws) == SeqToSet(ws)

\* The tasks a wake() of the wakers ws makes due for a poll: those driven by
\* one of the wakers that have a Lock future to poll.
Woken(ws) == { u \in Tasks : WakerOf(u) \in ws /\ mpc[u] \in {"new", "pending"} }

\* Drop for MutexGuard: locked.set(false), then Mutex::wake_all drains the
\* waker list and wakes every waker.
GuardDrop(t) ==
    /\ Running
    /\ mpc[t] = "held"
    /\ locked' = FALSE
    /\ mwoken' = mwoken \cup Woken(WakeAll(wakers))
    /\ wakers' = << >>
    /\ guards' = guards - 1
    /\ mpc' = [mpc EXCEPT ![t] = "idle"]
    /\ mprog' = [mprog EXCEPT ![t] = "released"]
    /\ mlast' = [op |-> "drop_guard", task |-> t, res |-> "()"]
    /\ UNCHANGED mvalue
    /\ UNCHANGED notMutex

\* Dropping a Lock future that has not produced a guard: Lock has no Drop
\* impl, so only the future itself goes away.
LockDrop(t) ==
    /\ Running
    /\ mpc[t] \in {"new", "pending"}
    /\ mpc' = [mpc EXCEPT ![t] = "idle"]
    /\ mlast' = [op |-> "drop_lock", task |-> t, res |-> "()"]
    /\ mwoken' = mwoken \ {t}
    /\ UNCHANGED << locked, wakers, mvalue, guards, mprog >>
    /\ UNCHANGED notMutex

\* The type whose fmt is called by the fmt of type ty: the impls for
\* MutexGuard call fmt::Debug::fmt(&self, f) (fmt::Display::fmt likewise)
\* with &self of type &&MutexGuard, which selects the impl for &MutexGuard;
\* the impl for a reference calls the fmt of the referenced type.
FmtCallee(ty) ==
    CASE ty = "MutexGuard" -> "&MutexGuard"
      [] ty = "&MutexGuard" -> "MutexGuard"
      [] OTHER -> "T"

\* The outcome of calling the fmt of type ty, where the fmt of the types in
\* `active` are on the call stack: the fmt of the protected value returns,
\* a call chain that comes back to an active fmt never does.
RECURSIVE FmtCall(_, _)
FmtCall(ty, active) ==
    IF ty = "T" THEN "Ok"
    ELSE IF ty \in active THEN "NoReturn"
    ELSE FmtCall(FmtCallee(ty), active \cup {ty})

\* Debug::fmt / Display::fmt of the guard a task holds; a call that does not
\* return ends the run of the program.
GuardFmt(t, tr) ==
    /\ Running
    /\ mpc[t] = "held"
    /\ mlast' = [op |-> tr, task |-> t, res |-> FmtCall("MutexGuard", {})]
    /\ UNCHANGED << locked, wakers, mvalue, mpc, mwoken, guards, mprog >>
    /\ UNCHANGED notMutex

MutexNext ==
    \E t \in Tasks :
        \/ MutexLock(t)
        \/ LockPoll(t)
        \/ TryLock(t)
        \/ GuardIncr(t)
        \/ GuardDrop(t)
        \/ LockDrop(t)
        \/ \E tr \in {"fmt_debug", "fmt_display"} : GuardFmt(t, tr)

(***************************************************************************)
(*                              TIMEOUT                                    *)
(***************************************************************************)

\* Largest value the monotonic clock takes in the model.
MaxClock == 4
\* Largest finite duration handed to timeout().
MaxDur == 2
\* Duration::MAX, scaled down; an Instant wraps a Duration, so it is also the
\* largest Instant and checked_add overflows past it.
DurationMax == 6
InstantMax == DurationMax
\* Cap on the signals the coordination primitive receives while the scheduler
\* waits.
MaxSignals == 2
\* Number of block_on calls tests::extra_check_works makes one after the other
\* on the shared counter.
MockRuns == 2

Instants == 0 .. MaxClock
Durations == (0 .. MaxDur) \cup {DurationMax}
Payloads == {78, 79}

Pending == [kind |-> "Pending", v |-> 0]
Expired == [kind |-> "Expired", v |-> 0]
NotPolled == [kind |-> "NotPolled", v |-> 0]

\* The wrapped tasks: never ready (a oneshot receiver whose sender stays
\* silent, the test's Mock), or ready from instant readyAt on with output
\* Ok(v) or Err(v).
Futures ==
    [readyAt : {None} \cup {Some(i) : i \in Instants},
     kind : {"Ok", "Err"}, v : Payloads]
NoFuture == [readyAt |-> None, kind |-> "Ok", v |-> 78]
NeverReady(f) == f.readyAt = None
\* The test's Mock: Output = Result<(), String>, every poll adds one to the
\* shared counter (innerPolls) and returns Pending.
Mock == [readyAt |-> None, kind |-> "Err", v |-> 78]
NoRun ==
    [ec |-> TRUE, dur |-> None, res |-> NotPolled, counter |-> 0, yields |-> 0]


TimeoutInit ==
    /\ clock = 0
    /\ future = NoFuture
    /\ extra_check = TRUE
    /\ deadline = None
    /\ tpc = "none"
    /\ ctx_deadline = None
    /\ tres = NotPolled
    /\ innerRes = NotPolled
    /\ polls = 0
    /\ innerPolls = 0
    /\ yields = 0
    /\ pollClock = 0
    /\ builtAt = 0
    /\ builtDur = None
    /\ signals = 0
    /\ runs = 0
    /\ prevRun = NoRun

\* Faulty variant: the sum saturates at the largest Instant.
SaturatingAdd(now, d) ==
    IF now + d > InstantMax THEN Some(InstantMax) ELSE Some(now + d)
\* Instant::checked_add.
CheckedAdd(now, d) == IF now + d > InstantMax THEN None ELSE Some(now + d)

\* timeout(timeout, f)
TimeoutNew(d, f) ==
    /\ tpc = "none"
    /\ (runs = 0 \/ f = Mock)
    /\ future' = f
    /\ extra_check' = TRUE
    /\ deadline' = CheckedAdd(clock, d)
    /\ tpc' = "built"
    /\ builtAt' = clock
    /\ builtDur' = Some(d)
    /\ UNCHANGED << clock, ctx_deadline, tres, innerRes, polls, innerPolls,
                    yields, pollClock, signals >>
    /\ UNCHANGED << runs, prevRun >>
    /\ UNCHANGED notTimeout

\* deadline(deadline, f)
DeadlineNew(dl, f) ==
    /\ tpc = "none"
    /\ (runs = 0 \/ f = Mock)
    /\ future' = f
    /\ extra_check' = TRUE
    /\ deadline' = Some(dl)
    /\ tpc' = "built"
    /\ builtAt' = clock
    /\ builtDur' = None
    /\ UNCHANGED << clock, ctx_deadline, tres, innerRes, polls, innerPolls,
                    yields, pollClock, signals >>
    /\ UNCHANGED << runs, prevRun >>
    /\ UNCHANGED notTimeout

\* Timeout::no_extra_check
NoExtraCheck ==
    /\ tpc = "built"
    /\ extra_check
    /\ extra_check' = FALSE
    /\ UNCHANGED << clock, future, deadline, tpc, ctx_deadline, tres, innerRes,
                    polls, innerPolls, yields, pollClock, builtAt, builtDur,
                    signals >>
    /\ UNCHANGED << runs, prevRun >>
    /\ UNCHANGED notTimeout

\* The wrapped task's poll.
InnerPoll(f, now) ==
    IF IsSome(f.readyAt) /\ now >= Unwrap(f.readyAt)
      THEN [kind |-> f.kind, v |-> f.v]
      ELSE Pending

\* Faulty variants of is_timeout: expiring one tick late, and one tick early.
IsTimeoutStrict(dl, now) == IF IsSome(dl) THEN now > Unwrap(dl) ELSE FALSE
IsTimeoutEarly(dl, now) == IF IsSome(dl) THEN now + 1 >= Unwrap(dl) ELSE FALSE
\* `is_timeout` of Timeout::poll.
IsTimeout(dl, now) == IF IsSome(dl) THEN now >= Unwrap(dl) ELSE FALSE

\* Faulty variant: the extra check after expiry is never made.
PollsInnerBeforeExpiry(ec, isTimeout) == ~isTimeout
\* Faulty variant: the wrapped task is polled whatever the flag says.
PollsInnerAlways(ec, isTimeout) == TRUE
\* Whether Timeout::poll polls the wrapped task.
PollsInner(ec, isTimeout) == ec \/ ~isTimeout

\* Faulty variant: an inner error is surfaced as the timeout error.
MapErrToExpired(r) == IF r.kind = "Err" THEN Expired ELSE r
\* v.map_err(Error::Failed)
MapErr(r) == IF r.kind = "Err" THEN [kind |-> "Failed", v |-> r.v] ELSE r

\* Faulty variant of Timeout::poll: expiry is decided before the readiness of
\* the inner poll.
TimeoutPollExpiryFirst(f, ec, dl, now) ==
    LET isTimeout == IsTimeout(dl, now)
        inner == IF PollsInner(ec, isTimeout) THEN InnerPoll(f, now) ELSE NotPolled
    IN  IF isTimeout
          THEN [res |-> Expired, inner |-> inner, ctx |-> None]
        ELSE IF inner.kind \in {"Ok", "Err"}
          THEN [res |-> MapErr(inner), inner |-> inner, ctx |-> None]
        ELSE [res |-> Pending, inner |-> inner, ctx |-> dl]

\* Timeout::poll as a function of the Timeout and the clock: what it returns,
\* what the inner poll returned (NotPolled when it was skipped) and the
\* wake-at reason it leaves in the context.
TimeoutPoll(f, ec, dl, now) ==
    LET isTimeout == IsTimeout(dl, now)
        inner == IF PollsInner(ec, isTimeout) THEN InnerPoll(f, now) ELSE NotPolled
    IN  IF inner.kind \in {"Ok", "Err"}
          THEN [res |-> MapErr(inner), inner |-> inner, ctx |-> None]
        ELSE IF isTimeout
          THEN [res |-> Expired, inner |-> inner, ctx |-> None]
        ELSE [res |-> Pending, inner |-> inner, ctx |-> dl]

\* One iteration of the scheduler loop: poll the task with a fresh context;
\* Ready ends the loop, Pending suspends the fiber on the primitive.
SchedPoll ==
    /\ tpc \in {"built", "run"}
    /\ LET p == TimeoutPoll(future, extra_check, deadline, clock)
       IN  /\ tres' = p.res
           /\ innerRes' = p.inner
           /\ ctx_deadline' = p.ctx
           /\ innerPolls' = innerPolls + (IF p.inner = NotPolled THEN 0 ELSE 1)
           /\ IF p.res = Pending
                THEN tpc' = "wait" /\ yields' = yields + 1
                ELSE tpc' = "done" /\ yields' = yields
    /\ polls' = polls + 1
    /\ pollClock' = clock
    /\ UNCHANGED << clock, future, extra_check, deadline, builtAt, builtDur,
                    signals >>
    /\ UNCHANGED << runs, prevRun >>
    /\ UNCHANGED notTimeout

\* Faulty variant: the wait ends although nothing was registered or reached.
MayTimeOutAlways(ctx, now) == TRUE
\* Whether a wait with the registered wake-at instant ctx ends at `now`.
MayTimeOut(ctx, now) == IsSome(ctx) /\ now >= Unwrap(ctx)

\* wait_timeout returns TimedOut: the registered instant has been reached.
SchedTimedOut ==
    /\ tpc = "wait"
    /\ MayTimeOut(ctx_deadline, clock)
    /\ tpc' = "run"
    /\ UNCHANGED << clock, future, extra_check, deadline, ctx_deadline, tres,
                    innerRes, polls, innerPolls, yields, pollClock, builtAt,
                    builtDur, signals >>
    /\ UNCHANGED << runs, prevRun >>
    /\ UNCHANGED notTimeout

\* wake() on the primitive while the scheduler waits.
SchedWoken ==
    /\ tpc = "wait"
    /\ signals < MaxSignals
    /\ signals' = signals + 1
    /\ tpc' = "run"
    /\ UNCHANGED << clock, future, extra_check, deadline, ctx_deadline, tres,
                    innerRes, polls, innerPolls, yields, pollClock, builtAt,
                    builtDur >>
    /\ UNCHANGED << runs, prevRun >>
    /\ UNCHANGED notTimeout

\* The monotonic clock advances.
Tick ==
    /\ tpc # "done"
    /\ clock < MaxClock
    /\ clock' = clock + 1
    /\ UNCHANGED << future, extra_check, deadline, tpc, ctx_deadline, tres,
                    innerRes, polls, innerPolls, yields, pollClock, builtAt,
                    builtDur, signals >>
    /\ UNCHANGED << runs, prevRun >>
    /\ UNCHANGED notTimeout

\* tests::extra_check_works between its two block_on calls: the first call has
\* returned, and a second Mock is made on a clone of the same counter.
MockAgain ==
    /\ tpc = "done"
    /\ future = Mock
    /\ runs + 1 < MockRuns
    /\ runs' = runs + 1
    /\ prevRun' = [ec |-> extra_check, dur |-> builtDur, res |-> tres,
                   counter |-> innerPolls, yields |-> yields]
    /\ tpc' = "none"
    /\ future' = NoFuture
    /\ extra_check' = TRUE
    /\ deadline' = None
    /\ ctx_deadline' = None
    /\ tres' = NotPolled
    /\ innerRes' = NotPolled
    /\ polls' = 0
    /\ yields' = 0
    /\ pollClock' = 0
    /\ builtAt' = 0
    /\ builtDur' = None
    /\ UNCHANGED << clock, innerPolls, signals >>
    /\ UNCHANGED notTimeout

TimeoutNext ==
    \/ \E d \in Durations, f \in Futures : TimeoutNew(d, f)
    \/ \E dl \in Instants, f \in Futures : DeadlineNew(dl, f)
    \/ NoExtraCheck
    \/ SchedPoll
    \/ SchedTimedOut
    \/ SchedWoken
    \/ Tick
    \/ MockAgain

(***************************************************************************)
(*                              CHANNEL                                    *)
(***************************************************************************)

\* Largest const capacity N explored; the smallest is 2.
MaxCap == 3
\* Number of tasks that may own a Sender / a Receiver.
NumSenders == 2
NumReceivers == 2
\* Cap on the number of send calls that may start.
MaxSends == 5
\* Width of usize.
UsizeBits == 64

Caps == 2 .. MaxCap
Senders == 1 .. NumSenders
Receivers == 1 .. NumReceivers

RECURSIVE Pow2Mod(_, _)
\* 2^k mod n, by repeated doubling.
Pow2Mod(k, n) == IF k = 0 THEN 1 % n ELSE (2 * Pow2Mod(k - 1, n)) % n

\* 2^UsizeBits mod n for the capacities in use.
UsizeModulus == [n \in 1 .. MaxCap + 2 |-> Pow2Mod(UsizeBits, n)]

\* a.wrapping_sub(b) % n on usize, for a, b < n.
WrappingSubMod(a, b, n) ==
    IF a >= b THEN (a - b) % n ELSE (UsizeModulus[n] + n - (b - a)) % n

\* ChannelBox::len
len(h, t, n) == WrappingSubMod(h, t, n)

\* ChannelBox::is_full
is_full(h, t, n) == n - len(h, t, n) = 1

\* ChannelBox::is_empty
is_empty(h, t) == t = h

\* Faulty variant of inc: only the first handle is counted.
inc_first_only(count) == IF count = 0 THEN 1 ELSE count
\* ChannelBox::inc on an Option<NonZeroUsize> (0 is None).
inc(count) == 1 + count

\* ChannelBox::dec, where the count is not None.
dec(count) == count - 1

\* Faulty variant of no_refs: the senders are not looked at.
no_refs_rx_only(rx, tx) == rx = 0
\* ChannelBox::no_refs
no_refs(rx, tx) == rx = 0 /\ tx = 0

\* The slots Drop for ChannelBox drops in place.
DropSlots(t, h, n) ==
    IF t <= h THEN t .. (h - 1) ELSE (0 .. (h - 1)) \cup (t .. (n - 1))

\* Coord::wake: releases every task suspended in wait().
Wake(pc) == [x \in DOMAIN pc |-> IF pc[x] = "wait" THEN "woken" ELSE pc[x]]

\* Number of values pushed and not yet popped.
Occupancy == pushes - Len(recvLog)

Live(pc) == { x \in DOMAIN pc : pc[x] \in {"idle", "wait", "woken"} }

COp(op, who, res, v) ==
    [op |-> op, who |-> who, res |-> res, v |-> v,
     occ |-> Occupancy, tx |-> tx_count, rx |-> rx_count]

\* mpmc::fixed::channel: ChannelBox::new, then Sender::new and Receiver::new.
ChannelInit ==
    /\ N \in Caps
    /\ data = [i \in 0 .. (N - 1) |-> 0]
    /\ tail = 0
    /\ head = 0
    /\ tx_count = inc(0)
    /\ rx_count = inc(0)
    /\ spc = [s \in Senders |-> IF s = 1 THEN "idle" ELSE "none"]
    /\ rpc = [r \in Receivers |-> IF r = 1 THEN "idle" ELSE "none"]
    /\ pushes = 0
    /\ recvLog = << >>
    /\ freed = 0
    /\ boxDropped = {}
    /\ panicked = FALSE
    /\ woke = FALSE
    /\ clast = [op |-> "channel", who |-> 0, res |-> "Ok", v |-> 0,
                occ |-> 0, tx |-> 1, rx |-> 1]

\* The channel while another component is exercised.
ChannelParked ==
    /\ N = 2
    /\ ChannelInit

\* Clone for Sender: Sender::new on the same box.
SenderClone(s, s2) ==
    /\ s \in Live(spc)
    /\ spc[s2] = "none"
    /\ \A k \in Senders : k < s2 => spc[k] # "none"
    /\ tx_count' = inc(tx_count)
    /\ spc' = [spc EXCEPT ![s2] = "idle"]
    /\ clast' = COp("clone_tx", s2, "Ok", 0)
    /\ woke' = FALSE
    /\ UNCHANGED << N, data, tail, head, rx_count, rpc, pushes, recvLog,
                    freed, boxDropped, panicked >>
    /\ UNCHANGED notChan

\* Clone for Receiver.
ReceiverClone(r, r2) ==
    /\ r \in Live(rpc)
    /\ rpc[r2] = "none"
    /\ \A k \in Receivers : k < r2 => rpc[k] # "none"
    /\ rx_count' = inc(rx_count)
    /\ rpc' = [rpc EXCEPT ![r2] = "idle"]
    /\ clast' = COp("clone_rx", r2, "Ok", 0)
    /\ woke' = FALSE
    /\ UNCHANGED << N, data, tail, head, tx_count, spc, pushes, recvLog,
                    freed, boxDropped, panicked >>
    /\ UNCHANGED notChan

\* The tail of Drop for Sender/Receiver with the counts after the decrement:
\* free the box when no handle is left (Drop for ChannelBox asserts no_refs
\* and drops the queued values in place).
FreeIfNoRefs(rx, tx) ==
    IF no_refs(rx, tx)
      THEN /\ freed' = freed + 1
           /\ boxDropped' = DropSlots(tail, head, N)
           /\ UNCHANGED panicked
      ELSE UNCHANGED << freed, boxDropped, panicked >>

\* Drop for Sender. A task suspended inside send borrows its handle, so only
\* an idle task drops.
SenderDrop(s) ==
    /\ spc[s] = "idle"
    /\ spc' = [spc EXCEPT ![s] = "gone"]
    /\ clast' = COp("drop_tx", s, "Ok", 0)
    /\ IF tx_count = 0
         THEN /\ panicked' = TRUE
              /\ UNCHANGED << tx_count, freed, boxDropped >>
         ELSE /\ tx_count' = dec(tx_count)
              /\ FreeIfNoRefs(rx_count, dec(tx_count))
    /\ woke' = FALSE
    /\ UNCHANGED << N, data, tail, head, rx_count, rpc, pushes, recvLog >>
    /\ UNCHANGED notChan

\* Drop for Receiver.
ReceiverDrop(r) ==
    /\ rpc[r] = "idle"
    /\ rpc' = [rpc EXCEPT ![r] = "gone"]
    /\ clast' = COp("drop_rx", r, "Ok", 0)
    /\ IF rx_count = 0
         THEN /\ panicked' = TRUE
              /\ UNCHANGED << rx_count, freed, boxDropped >>
         ELSE /\ rx_count' = dec(rx_count)
              /\ FreeIfNoRefs(dec(rx_count), tx_count)
    /\ woke' = FALSE
    /\ UNCHANGED << N, data, tail, head, tx_count, spc, pushes, recvLog >>
    /\ UNCHANGED notChan

\* ChannelBox::push_back of the next value, then wake() if the buffer was
\* empty; `me` is the sender that pushes and is idle afterwards.
PushAndWake(me) ==
    /\ data' = [data EXCEPT ![head] = pushes + 1]
    /\ head' = (head + 1) % N
    /\ pushes' = pushes + 1
    /\ IF is_empty(head, tail)
         THEN /\ spc' = [Wake(spc) EXCEPT ![me] = "idle"]
              /\ rpc' = Wake(rpc)
              /\ woke' = TRUE
         ELSE /\ spc' = [spc EXCEPT ![me] = "idle"]
              /\ woke' = FALSE
              /\ UNCHANGED rpc
    /\ UNCHANGED << tail, recvLog >>

\* ChannelBox::pop_front (the slot is moved out of), then wake() if the
\* buffer was full; `me` is the receiver that pops and is idle afterwards.
PopAndWake(me) ==
    /\ recvLog' = Append(recvLog, data[tail])
    /\ data' = [data EXCEPT ![tail] = 0]
    /\ tail' = (tail + 1) % N
    /\ IF is_full(head, tail, N)
         THEN /\ rpc' = [Wake(rpc) EXCEPT ![me] = "idle"]
              /\ spc' = Wake(spc)
              /\ woke' = TRUE
         ELSE /\ rpc' = [rpc EXCEPT ![me] = "idle"]
              /\ woke' = FALSE
              /\ UNCHANGED spc
    /\ UNCHANGED << head, pushes >>

\* Faulty variant of try_push_back: the value is written although Err is
\* returned.
try_push_back_writes(d, h, t, n, v) ==
    [res |-> IF is_full(h, t, n) THEN "Err" ELSE "Ok", v |-> v,
     data |-> [d EXCEPT ![h] = v], head |-> (h + 1) % n]
\* ChannelBox::try_push_back: its result, and the buffer and head it leaves.
try_push_back(d, h, t, n, v) ==
    IF is_full(h, t, n)
      THEN [res |-> "Err", v |-> v, data |-> d, head |-> h]
      ELSE [res |-> "Ok", v |-> v, data |-> [d EXCEPT ![h] = v],
            head |-> (h + 1) % n]

\* ChannelBox::try_send (with try_push_back).
TrySend(s) ==
    /\ spc[s] = "idle"
    /\ pushes < MaxSends
    /\ IF rx_count = 0
         THEN /\ clast' = COp("try_send", s, "Disconnected", pushes + 1)
              /\ UNCHANGED << data, tail, head, spc, rpc, pushes, recvLog >>
              /\ woke' = FALSE
         ELSE LET r == try_push_back(data, head, tail, N, pushes + 1)
              IN  IF r.res = "Err"
                    THEN /\ clast' = COp("try_send", s, "Full", r.v)
                         /\ data' = r.data
                         /\ head' = r.head
                         /\ woke' = FALSE
                         /\ UNCHANGED << tail, spc, rpc, pushes, recvLog >>
                    ELSE /\ clast' = COp("try_send", s, "Ok", r.v)
                         /\ PushAndWake(s)
    /\ UNCHANGED << N, rx_count, tx_count, freed, boxDropped, panicked >>
    /\ UNCHANGED notChan

\* ChannelBox::send from the `while self.is_full()` loop on: suspend in
\* coord.wait() while full, then re-check the receivers and push.
SendLoop(s, op) ==
    IF is_full(head, tail, N)
      THEN /\ spc' = [spc EXCEPT ![s] = "wait"]
           /\ clast' = COp(op, s, "Blocked", pushes + 1)
           /\ UNCHANGED << data, tail, head, rpc, pushes, recvLog >>
           /\ woke' = FALSE
      ELSE IF rx_count = 0
        THEN /\ spc' = [spc EXCEPT ![s] = "idle"]
             /\ clast' = COp(op, s, "Disconnected", pushes + 1)
             /\ UNCHANGED << data, tail, head, rpc, pushes, recvLog >>
             /\ woke' = FALSE
        ELSE /\ clast' = COp(op, s, "Ok", pushes + 1)
             /\ PushAndWake(s)

\* ChannelBox::send, from the call to its return or its first suspension.
SendCall(s) ==
    /\ spc[s] = "idle"
    /\ pushes < MaxSends
    /\ IF rx_count = 0
         THEN /\ clast' = COp("send", s, "Disconnected", pushes + 1)
              /\ UNCHANGED << data, tail, head, spc, rpc, pushes, recvLog >>
              /\ woke' = FALSE
         ELSE SendLoop(s, "send")
    /\ UNCHANGED << N, rx_count, tx_count, freed, boxDropped, panicked >>
    /\ UNCHANGED notChan

\* ChannelBox::send resumed after coord.wait() returned.
SendResume(s) ==
    /\ spc[s] = "woken"
    /\ SendLoop(s, "send_resumed")
    /\ UNCHANGED << N, rx_count, tx_count, freed, boxDropped, panicked >>
    /\ UNCHANGED notChan

\* ChannelBox::try_recv (with try_pop_front).
TryRecv(r) ==
    /\ rpc[r] = "idle"
    /\ IF tx_count = 0 /\ is_empty(head, tail)
         THEN /\ clast' = COp("try_recv", r, "Disconnected", 0)
              /\ UNCHANGED << data, tail, head, spc, rpc, pushes, recvLog >>
              /\ woke' = FALSE
         ELSE IF is_empty(head, tail)
           THEN /\ clast' = COp("try_recv", r, "Empty", 0)
                /\ UNCHANGED << data, tail, head, spc, rpc, pushes, recvLog >>
                /\ woke' = FALSE
           ELSE /\ clast' = COp("try_recv", r, "Ok", data[tail])
                /\ PopAndWake(r)
    /\ UNCHANGED << N, rx_count, tx_count, freed, boxDropped, panicked >>
    /\ UNCHANGED notChan

\* ChannelBox::recv from the `while self.is_empty()` loop on.
RecvLoop(r, op) ==
    IF is_empty(head, tail)
      THEN /\ rpc' = [rpc EXCEPT ![r] = "wait"]
           /\ clast' = COp(op, r, "Blocked", 0)
           /\ UNCHANGED << data, tail, head, spc, pushes, recvLog >>
           /\ woke' = FALSE
      ELSE /\ clast' = COp(op, r, "Ok", data[tail])
           /\ PopAndWake(r)

\* ChannelBox::recv, from the call to its return or its first suspension.
RecvCall(r) ==
    /\ rpc[r] = "idle"
    /\ IF tx_count = 0 /\ is_empty(head, tail)
         THEN /\ clast' = COp("recv", r, "Disconnected", 0)
              /\ UNCHANGED << data, tail, head, spc, rpc, pushes, recvLog >>
              /\ woke' = FALSE
         ELSE RecvLoop(r, "recv")
    /\ UNCHANGED << N, rx_count, tx_count, freed, boxDropped, panicked >>
    /\ UNCHANGED notChan

\* ChannelBox::recv resumed after coord.wait() returned.
RecvResume(r) ==
    /\ rpc[r] = "woken"
    /\ RecvLoop(r, "recv_resumed")
    /\ UNCHANGED << N, rx_count, tx_count, freed, boxDropped, panicked >>
    /\ UNCHANGED notChan

ChanNext ==
    \/ \E s, s2 \in Senders : SenderClone(s, s2)
    \/ \E r, r2 \in Receivers : ReceiverClone(r, r2)
    \/ \E s \in Senders : SenderDrop(s)
    \/ \E r \in Receivers : ReceiverDrop(r)
    \/ \E s \in Senders : TrySend(s)
    \/ \E s \in Senders : SendCall(s)
    \/ \E s \in Senders : SendResume(s)
    \/ \E r \in Receivers : TryRecv(r)
    \/ \E r \in Receivers : RecvCall(r)
    \/ \E r \in Receivers : RecvResume(r)

(***************************************************************************)
(*                             TCP STREAM                                  *)
(***************************************************************************)

\* Number of TcpStream handles (the connected one and its clones).
NumHandles == 3
\* Cap on the counters of OS calls, so that the state space is finite.
MaxOsCalls == 3

Handles == 1 .. NumHandles
\* The descriptor numbers the OS hands out.
FdNums == {3, 4}

NotClosed == [who |-> 0, op |-> "-", others |-> 0]
NoReason == [kind |-> "none", fd |-> 0, flag |-> "-", at |-> 0]
\* ContextExt::set_coio_wait(cx, fd, flag)
CoioWait(n, flag) == [kind |-> "coio_wait", fd |-> n, flag |-> flag, at |-> 0]
\* ContextExt::set_deadline(cx, fiber::clock())
WakeAt(now) == [kind |-> "deadline", fd |-> 0, flag |-> "-", at |-> now]

Others(h) == Cardinality({g \in Handles : g # h /\ hst[g] = "live"})

SOp(op, who, res, sys, ctx) ==
    [op |-> op, who |-> who, res |-> res, sys |-> sys, ctx |-> ctx,
     slot |-> cells[cellOf[who]], others |-> Others(who), os |-> "-"]

Bump(n) == IF n < MaxOsCalls THEN n + 1 ELSE n

\* The state after TcpStream::connect returned Ok: one handle whose cell holds
\* the descriptor of the connected socket.
TcpConnected ==
    /\ \E n \in FdNums :
          /\ cells = [c \in Handles |-> IF c = 1 THEN Some(n) ELSE None]
          /\ osTable \in {t \in [FdNums -> {"free", "sock", "other"}] :
                            /\ t[n] = "sock"
                            /\ \A k \in FdNums \ {n} : t[k] # "sock"}
    /\ cellOf = [h \in Handles |-> 1]
    /\ hst = [h \in Handles |-> IF h = 1 THEN "live" ELSE "none"]
    /\ osCloses = 0
    /\ stray = 0
    /\ spanicked = FALSE
    /\ debug \in BOOLEAN
    /\ closedVia = NotClosed
    /\ slast = [op |-> "connect", who |-> 1, res |-> "Ok", sys |-> 1,
                ctx |-> NoReason, slot |-> None, others |-> 0]

\* A stream that a specification does not exercise.
TcpParked ==
    /\ TcpConnected
    /\ cells[1] = Some(3)
    /\ osTable = [n \in FdNums |-> IF n = 3 THEN "sock" ELSE "free"]
    /\ debug

\* Faulty variant: the clone gets a cell of its own holding a copy.
DeepClone(cs, c, h2) == [cells |-> [cs EXCEPT ![h2] = cs[c]], cell |-> h2]
\* Rc::clone of the `fd` field: the clone points to the same cell.
RcClone(cs, c, h2) == [cells |-> cs, cell |-> c]

\* derive(Clone) for TcpStream.
StreamClone(h, h2) ==
    /\ ~spanicked
    /\ hst[h] = "live"
    /\ hst[h2] = "none"
    /\ \A k \in Handles : k < h2 => hst[k] # "none"
    /\ LET r == RcClone(cells, cellOf[h], h2)
       IN  /\ cells' = r.cells
           /\ cellOf' = [cellOf EXCEPT ![h2] = r.cell]
    /\ hst' = [hst EXCEPT ![h2] = "live"]
    /\ slast' = SOp("clone", h, "TcpStream", 0, NoReason)
    /\ UNCHANGED << osTable, osCloses, stray, spanicked, debug, closedVia >>
    /\ UNCHANGED notTcp

\* Faulty variant: the descriptor is read and left in the cell.
TakeKeeps(v) == [val |-> v, cell |-> v]
\* Cell::take: returns the value and leaves None.
Take(v) == [val |-> v, cell |-> None]

\* The outcomes ffi::coio_close can have on a table entry: a free number is
\* EBADF, an open one is released and the call reports success or an error.
CloseOutcomes(entry) == IF entry = "free" THEN {"EBADF"} ELSE {"ok", "EIO"}

\* Faulty variant: closing a closed stream is reported as an error.
CloseResErrWhenClosed(v, o) ==
    IF v = None THEN "Err(closed)"
    ELSE IF o = "ok" THEN "Ok"
    ELSE IF o = "EBADF" THEN "Err(EBADF)"
    ELSE "Err(os)"
\* What TcpStream::close returns.
CloseRes(v, o) ==
    IF v = None THEN "Ok"
    ELSE IF o = "ok" THEN "Ok"
    ELSE IF o = "EBADF" THEN "Err(EBADF)"
    ELSE "Err(os)"

\* The effects of TcpStream::close called through handle h by operation op,
\* the OS answering coio_close with o.
CloseEffects(h, op, o) ==
    LET c == cellOf[h]
        t == Take(cells[c])
    IN  /\ cells' = [cells EXCEPT ![c] = t.cell]
        /\ IF t.val = None
             THEN /\ o = "ok"
                  /\ UNCHANGED << osTable, osCloses, stray, spanicked,
                                  closedVia >>
             ELSE LET n == Unwrap(t.val)
                  IN  /\ o \in CloseOutcomes(osTable[n])
                      /\ osTable' = [osTable EXCEPT ![n] = "free"]
                      /\ osCloses' = Bump(osCloses)
                      /\ stray' = IF osTable[n] = "sock" THEN stray
                                  ELSE Bump(stray)
                      /\ spanicked' = (o = "EBADF" /\ debug)
                      /\ closedVia' = [who |-> h, op |-> op,
                                        others |-> Others(h)]

CloseSys(h) == IF cells[cellOf[h]] = None THEN 0 ELSE 1

\* TcpStream::close
StreamClose(h, o) ==
    /\ ~spanicked
    /\ hst[h] = "live"
    /\ CloseEffects(h, "close", o)
    /\ slast' = SOp("close", h, CloseRes(cells[cellOf[h]], o), CloseSys(h),
                    NoReason)
    /\ UNCHANGED << cellOf, hst, debug >>
    /\ UNCHANGED notTcp

\* AsyncWrite::poll_close
PollClose(h, o) ==
    /\ ~spanicked
    /\ hst[h] = "live"
    /\ IF cells[cellOf[h]] = None
         THEN /\ slast' = SOp("poll_close", h, "Err(closed)", 0, NoReason)
              /\ UNCHANGED << cells, osTable, osCloses, stray, spanicked,
                              closedVia >>
         ELSE /\ CloseEffects(h, "poll_close", o)
              /\ slast' = SOp("poll_close", h, CloseRes(cells[cellOf[h]], o),
                              CloseSys(h), NoReason)
    /\ UNCHANGED << cellOf, hst, debug >>
    /\ UNCHANGED notTcp

\* Drop for TcpStream: close, an error is only logged.
StreamDrop(h, o) ==
    /\ ~spanicked
    /\ hst[h] = "live"
    /\ CloseEffects(h, "drop", o)
    /\ hst' = [hst EXCEPT ![h] = "dropped"]
    /\ slast' = SOp("drop", h, "()", CloseSys(h), NoReason)
    /\ UNCHANGED << cellOf, debug >>
    /\ UNCHANGED notTcp

\* The outcomes libc::read / libc::write can have on a table entry: a count
\* (0 at end of stream), or -1 with WouldBlock, Interrupted or another error;
\* on a free number only EBADF.
IoOutcomes(entry) ==
    IF entry = "free" THEN {"Other"}
    ELSE {"0", "n", "WouldBlock", "Interrupted", "Other"}

\* Faulty variant: an interrupted syscall waits for the descriptor too.
IoResultInterruptedWaits(o, n, flag, now) ==
    IF o \in {"0", "n"} THEN [res |-> "Ok(" \o o \o ")", ctx |-> NoReason]
    ELSE IF o \in {"WouldBlock", "Interrupted"}
           THEN [res |-> "Pending", ctx |-> CoioWait(n, flag)]
    ELSE [res |-> "Err(os)", ctx |-> NoReason]

\* What poll_read / poll_write return for the outcome of their syscall on
\* descriptor n, and the reason they register.
IoResult(o, n, flag, now) ==
    IF o \in {"0", "n"} THEN [res |-> "Ok(" \o o \o ")", ctx |-> NoReason]
    ELSE IF o = "WouldBlock" THEN [res |-> "Pending", ctx |-> CoioWait(n, flag)]
    ELSE IF o = "Interrupted" THEN [res |-> "Pending", ctx |-> WakeAt(now)]
    ELSE [res |-> "Err(os)", ctx |-> NoReason]

PollIo(h, op, flag, o) ==
    /\ ~spanicked
    /\ hst[h] = "live"
    /\ LET v == cells[cellOf[h]]
       IN  IF v = None
             THEN /\ o = "Other"
                  /\ slast' = SOp(op, h, "Err(closed)", 0, NoReason)
                  /\ UNCHANGED stray
             ELSE LET n == Unwrap(v)
                      r == IoResult(o, n, flag, clock)
                  IN  /\ o \in IoOutcomes(osTable[n])
                      /\ slast' = [SOp(op, h, r.res, 1, r.ctx) EXCEPT !.os = o]
                      /\ stray' = IF osTable[n] = "sock" THEN stray
                                  ELSE Bump(stray)
    /\ UNCHANGED << cells, cellOf, hst, osTable, osCloses, spanicked, debug,
                    closedVia >>
    /\ UNCHANGED notTcp

\* AsyncRead::poll_read
PollRead(h, o) == PollIo(h, "poll_read", "READ", o)

\* AsyncWrite::poll_write
PollWrite(h, o) == PollIo(h, "poll_write", "WRITE", o)

\* AsyncWrite::poll_flush
PollFlush(h) ==
    /\ ~spanicked
    /\ hst[h] = "live"
    /\ slast' = SOp("poll_flush", h,
                    IF cells[cellOf[h]] = None THEN "Err(closed)" ELSE "Ok",
                    0, NoReason)
    /\ UNCHANGED << cells, cellOf, hst, osTable, osCloses, stray, spanicked,
                    debug, closedVia >>
    /\ UNCHANGED notTcp

\* Some other code of the process opens a file and the OS hands out a free
\* descriptor number (the test's dup2 onto the closed socket's number).
OsReuse(n) ==
    /\ ~spanicked
    /\ osTable[n] = "free"
    /\ osTable' = [osTable EXCEPT ![n] = "other"]
    /\ UNCHANGED << cells, cellOf, hst, osCloses, stray, spanicked, debug,
                    closedVia, slast >>
    /\ UNCHANGED notTcp

\* The other code closes its file (the test's cleanup).
OsOtherClose(n) ==
    /\ ~spanicked
    /\ osTable[n] = "other"
    /\ osTable' = [osTable EXCEPT ![n] = "free"]
    /\ UNCHANGED << cells, cellOf, hst, osCloses, stray, spanicked, debug,
                    closedVia, slast >>
    /\ UNCHANGED notTcp

CloseAnswers == {"ok", "EIO", "EBADF"}
IoAnswers == {"0", "n", "WouldBlock", "Interrupted", "Other"}

TcpNext ==
    \/ \E h, h2 \in Handles : StreamClone(h, h2)
    \/ \E h \in Handles, o \in CloseAnswers : StreamClose(h, o)
    \/ \E h \in Handles, o \in CloseAnswers : PollClose(h, o)
    \/ \E h \in Handles, o \in CloseAnswers : StreamDrop(h, o)
    \/ \E h \in Handles, o \in IoAnswers : PollRead(h, o)
    \/ \E h \in Handles, o \in IoAnswers : PollWrite(h, o)
    \/ \E h \in Handles : PollFlush(h)
    \/ \E n \in FdNums : OsReuse(n)
    \/ \E n \in FdNums : OsOtherClose(n)

(***************************************************************************)
(*                        JOINED TIMEOUTS                                  *)
(***************************************************************************)

Children == {1, 2}

\* A wrapped task that is never ready is always_pending(), which registers
\* nothing; one that is ready from readyAt on is a read of the stream, which
\* registers a descriptor wait while it is pending.
JoinFutures == { f \in Futures : f.kind = "Ok" /\ f.v = 78
                                  /\ (IsSome(f.readyAt) => Unwrap(f.readyAt) <= MaxDur) }
JoinDeadlines == {None} \cup { Some(d) : d \in 0 .. MaxDur }

NoContext == [deadline |-> None, coio |-> FALSE]

Resolved(r) == r.kind \notin {"NotPolled", "Pending"}

JoinNew ==
    /\ jclock = 0
    /\ jmode \in {"join", "select"}
    /\ jorder \in { << 1, 2 >>, << 2, 1 >> }
    /\ jfut \in [Children -> [f : JoinFutures, dl : JoinDeadlines]]
    /\ jres = [i \in Children |-> NotPolled]
    /\ jat = [i \in Children |-> 0]
    /\ jctx = NoContext
    /\ jpc = "run"

JoinParked ==
    /\ jclock = 0
    /\ jmode = "join"
    /\ jorder = << 1, 2 >>
    /\ jfut = [i \in Children |-> [f |-> NoFuture, dl |-> None]]
    /\ jres = [i \in Children |-> NotPolled]
    /\ jat = [i \in Children |-> 0]
    /\ jctx = NoContext
    /\ jpc = "none"

\* Faulty variant: the instant registered last replaces the earlier one.
SetDeadlineLast(old, new) == Some(new)
\* ContextExt::set_deadline: the context keeps the earliest instant.
SetDeadline(old, new) ==
    IF IsSome(old) /\ Unwrap(old) <= new THEN old ELSE Some(new)

\* The poll of Timeout i with the context ctx: the wrapped read registers
\* its descriptor wait when it is pending, and Timeout::poll registers its
\* deadline when it returns Pending.
JoinChildPoll(i, ctx) ==
    IF Resolved(jres[i]) THEN [res |-> jres[i], ctx |-> ctx, polled |-> FALSE]
    ELSE
      LET c == jfut[i]
          p == TimeoutPoll(c.f, TRUE, c.dl, jclock)
          inner == IF p.inner = Pending /\ IsSome(c.f.readyAt)
                     THEN [ctx EXCEPT !.coio = TRUE] ELSE ctx
      IN  [res |-> p.res,
           ctx |-> IF IsSome(p.ctx)
                     THEN [inner EXCEPT !.deadline =
                             SetDeadline(inner.deadline, Unwrap(p.ctx))]
                     ELSE inner,
           polled |-> TRUE]

\* One poll of the top-level task by the scheduler loop, with a fresh
\* context: join! polls every unresolved Timeout in order and is Ready when
\* both are resolved; select! is Ready at the first resolved one.
JoinPoll ==
    /\ jpc = "run"
    /\ LET a == jorder[1]
           b == jorder[2]
           pa == JoinChildPoll(a, NoContext)
           stop == jmode = "select" /\ Resolved(pa.res)
           pb == IF stop THEN [res |-> jres[b], ctx |-> pa.ctx, polled |-> FALSE]
                 ELSE JoinChildPoll(b, pa.ctx)
           done == IF jmode = "select"
                     THEN Resolved(pa.res) \/ Resolved(pb.res)
                     ELSE Resolved(pa.res) /\ Resolved(pb.res)
       IN  /\ jres' = [jres EXCEPT ![a] = pa.res, ![b] = pb.res]
           /\ jat' = [i \in Children |->
                        IF ~Resolved(jres[i]) /\ Resolved(jres'[i])
                          THEN jclock ELSE jat[i]]
           /\ jctx' = pb.ctx
           /\ jpc' = IF done THEN "done" ELSE "wait"
    /\ UNCHANGED << jclock, jmode, jorder, jfut >>
    /\ UNCHANGED notJoin

\* The scheduler's wait ends because the earliest registered instant has
\* been reached.
JoinTimedOut ==
    /\ jpc = "wait"
    /\ MayTimeOut(jctx.deadline, jclock)
    /\ jpc' = "run"
    /\ UNCHANGED << jclock, jmode, jorder, jfut, jres, jat, jctx >>
    /\ UNCHANGED notJoin

\* The scheduler's wait ends because the descriptor it waits for is ready.
JoinReadable ==
    /\ jpc = "wait"
    /\ jctx.coio
    /\ \E i \in Children : /\ ~Resolved(jres[i])
                            /\ IsSome(jfut[i].f.readyAt)
                            /\ jclock >= Unwrap(jfut[i].f.readyAt)
    /\ jpc' = "run"
    /\ UNCHANGED << jclock, jmode, jorder, jfut, jres, jat, jctx >>
    /\ UNCHANGED notJoin

\* The monotonic clock advances.
JoinTick ==
    /\ jpc \in {"run", "wait"}
    /\ jclock < MaxClock
    /\ jclock' = jclock + 1
    /\ UNCHANGED << jmode, jorder, jfut, jres, jat, jctx, jpc >>
    /\ UNCHANGED notJoin

JoinNext ==
    \/ JoinPoll
    \/ JoinTimedOut
    \/ JoinReadable
    \/ JoinTick

(***************************************************************************)
(*                        CONNECT WITH TIMEOUT                             *)
(***************************************************************************)

NoPoll == [op |-> "-", elapsed |-> 0, poll |-> "-", hup |-> FALSE,
           so |-> "-", res |-> "-", at |-> 0]

\* connect_timeout has been called and has run nothing yet.
ConnectNew ==
    /\ cnpc = "start"
    /\ cnfd = None
    /\ cnopen = FALSE
    /\ cnres = "-"
    /\ cnclock = 0
    /\ connector = None
    /\ cnctx = None
    /\ cnlast = NoPoll

ConnectParked ==
    /\ cnpc = "none"
    /\ cnfd = None
    /\ cnopen = FALSE
    /\ cnres = "-"
    /\ cnclock = 0
    /\ connector = None
    /\ cnctx = None
    /\ cnlast = NoPoll

\* The ways through connect_timeout up to its return or to the await of
\* the Connector: address resolution fails, socket() fails, the ioctl
\* fails, connect() succeeds at once, is in progress, or fails.
ConnectPaths == {"resolve_fail", "socket_fail", "ioctl_fail", "connect_ok",
                 "connect_in_progress", "connect_fail"}

\* Whether the path makes a descriptor.
MakesSocket(path) == path \notin {"resolve_fail", "socket_fail"}

\* What connect_timeout returns on the path, "-" while it awaits.
PathResult(path) ==
    CASE path = "resolve_fail" -> "Err(Resolve)"
      [] path = "connect_ok" -> "Ok"
      [] path = "connect_in_progress" -> "-"
      [] OTHER -> "Err(IO)"

\* TcpStream::connect_timeout, from its call to its return or to the first
\* poll of the Connector; no path closes the descriptor.
ConnectTimeout(tmo, path) ==
    /\ cnpc = "start"
    /\ cnfd' = IF MakesSocket(path) THEN Some(3) ELSE None
    /\ cnopen' = MakesSocket(path)
    /\ cnres' = PathResult(path)
    /\ IF path = "connect_in_progress"
         THEN /\ connector' = Some([timeout |-> tmo, created |-> cnclock])
              /\ cnpc' = "run"
         ELSE /\ tmo = 0
              /\ connector' = None
              /\ cnpc' = "done"
    /\ UNCHANGED << cnclock, cnctx, cnlast >>
    /\ UNCHANGED notConnect

\* Faulty variant: a poll that saw nothing registers no reason.
PendingReasonNone(now) == None
\* The reason of a Pending poll: set_deadline(cx, fiber::clock()).
PendingReason(now) == Some(now)

\* What Connector::poll returns after libc::poll returned `o` with POLLHUP
\* as `hup` and getsockopt(SO_ERROR) giving `so`.
ConnectorResult(o, hup, so) ==
    CASE o = "interrupted" -> "Pending"
      [] o = "error" -> "Err(IO)"
      [] o = "zero" -> "Pending"
      [] OTHER -> IF hup /\ so \in {"fail", "nonzero"} THEN "Err(IO)" ELSE "Ok"

\* Connector::poll, with the return of connect_timeout when it is Ready.
\* libc::poll blocks for w: the whole remaining time when it returns 0.
ConnectorPoll(o, hup, so, w) ==
    /\ cnpc = "run"
    /\ LET c == Unwrap(connector)
           elapsed == cnclock - c.created
           expired == elapsed >= c.timeout
           remaining == c.timeout - elapsed
           res == IF expired THEN "Err(Timeout)" ELSE ConnectorResult(o, hup, so)
           now == IF expired THEN cnclock ELSE cnclock + w
       IN  /\ IF expired
                THEN o = "-" /\ w = 0
                ELSE /\ o \in {"interrupted", "error", "zero", "ready"}
                     /\ w \in 0 .. remaining
                     /\ o = "zero" => w = remaining
           /\ hup = (so # "-")
           /\ hup => o = "ready"
           /\ cnclock' = now
           /\ cnlast' = [op |-> "poll", elapsed |-> elapsed, poll |-> o,
                         hup |-> hup, so |-> so, res |-> res, at |-> now]
           /\ IF res = "Pending"
                THEN /\ cnctx' = PendingReason(now)
                     /\ cnpc' = "wait"
                     /\ UNCHANGED cnres
                ELSE /\ cnctx' = None
                     /\ cnpc' = "done"
                     /\ cnres' = res
    /\ UNCHANGED << cnfd, cnopen, connector >>
    /\ UNCHANGED notConnect

\* One poll of the Connector, whatever the OS answers.
ConnectorStep ==
    \E o \in {"-", "interrupted", "error", "zero", "ready"},
       hup \in BOOLEAN, so \in {"-", "fail", "zero", "nonzero"},
       w \in 0 .. MaxDur : ConnectorPoll(o, hup, so, w)

\* The scheduler's wait ends because the registered instant is reached.
ConnectorWake ==
    /\ cnpc = "wait"
    /\ MayTimeOut(cnctx, cnclock)
    /\ cnpc' = "run"
    /\ UNCHANGED << cnfd, cnopen, cnres, cnclock, connector, cnctx, cnlast >>
    /\ UNCHANGED notConnect

\* The clock advances.
ConnectTick ==
    /\ cnpc \in {"run", "wait"}
    /\ cnclock < MaxClock
    /\ cnclock' = cnclock + 1
    /\ UNCHANGED << cnpc, cnfd, cnopen, cnres, connector, cnctx, cnlast >>
    /\ UNCHANGED notConnect

ConnectNext ==
    \/ \E tmo \in 0 .. MaxDur, path \in ConnectPaths : ConnectTimeout(tmo, path)
    \/ ConnectorStep
    \/ ConnectorWake
    \/ ConnectTick

(***************************************************************************)
(*                           SPECIFICATIONS                                *)
(***************************************************************************)

\* A component that a specification does not exercise stays as constructed.
InitMutex ==
    /\ MutexNew
    /\ TimeoutInit
    /\ ChannelParked
    /\ TcpParked
    /\ JoinParked
    /\ ConnectParked

SpecMutex == InitMutex /\ [][MutexNext]_vars

\* tests::contention_multiple_fibers and tests::contention_one_fiber: every
\* task runs `lock().await; *lock += 1; rx.changed().await; drop(lock)` once,
\* and is polled when it starts and whenever its waker was woken.
ContentionLock(t) == mprog[t] = "fresh" /\ MutexLock(t)
ContentionPoll(t) == (mpc[t] = "new" \/ t \in mwoken) /\ LockPoll(t)
ContentionIncr(t) == mprog[t] = "fresh" /\ GuardIncr(t)
ContentionRelease(t) == mprog[t] = "incremented" /\ GuardDrop(t)

ContentionNext ==
    \E t \in Tasks :
        \/ ContentionLock(t)
        \/ ContentionPoll(t)
        \/ ContentionIncr(t)
        \/ ContentionRelease(t)

SpecContention == InitMutex /\ [][ContentionNext]_vars

\* Every task is started, a runnable task is resumed, and the signal the
\* guard's holder waits for is sent.
FairSpecContention ==
    /\ SpecContention
    /\ \A t \in Tasks : /\ WF_vars(ContentionLock(t))
                        /\ WF_vars(ContentionPoll(t))
                        /\ WF_vars(ContentionIncr(t))
                        /\ WF_vars(ContentionRelease(t))

InitTimeout ==
    /\ MutexNew
    /\ TimeoutInit
    /\ ChannelParked
    /\ TcpParked
    /\ JoinParked
    /\ ConnectParked

SpecTimeout == InitTimeout /\ [][TimeoutNext]_vars

\* The scheduler's fiber is always resumed once it is runnable.
FairSpecTimeout ==
    /\ SpecTimeout
    /\ WF_vars(SchedPoll)
    /\ WF_vars(SchedTimedOut)

InitChan ==
    /\ MutexNew
    /\ TimeoutInit
    /\ ChannelInit
    /\ TcpParked
    /\ JoinParked
    /\ ConnectParked

SpecChan == InitChan /\ [][ChanNext]_vars

\* A task released by wake() is resumed by the fiber scheduler.
FairSpecChan ==
    /\ SpecChan
    /\ \A s \in Senders : WF_vars(SendResume(s))
    /\ \A r \in Receivers : WF_vars(RecvResume(r))

InitTcp ==
    /\ MutexNew
    /\ TimeoutInit
    /\ ChannelParked
    /\ TcpConnected
    /\ JoinParked
    /\ ConnectParked

SpecTcp == InitTcp /\ [][TcpNext]_vars

InitJoin ==
    /\ MutexNew
    /\ TimeoutInit
    /\ ChannelParked
    /\ TcpParked
    /\ JoinNew
    /\ ConnectParked

SpecJoin == InitJoin /\ [][JoinNext]_vars

\* The scheduler's fiber is resumed once it is runnable or its wait ends.
FairSpecJoin ==
    /\ SpecJoin
    /\ WF_vars(JoinPoll)
    /\ WF_vars(JoinTimedOut)
    /\ WF_vars(JoinReadable)

InitConnect ==
    /\ MutexNew
    /\ TimeoutInit
    /\ ChannelParked
    /\ TcpParked
    /\ JoinParked
    /\ ConnectNew

SpecConnect == InitConnect /\ [][ConnectNext]_vars

\* The scheduler polls the Connector again once its wait ends, and time
\* passes.
FairSpecConnect ==
    /\ SpecConnect
    /\ WF_vars(ConnectorStep)
    /\ WF_vars(ConnectorWake)
    /\ WF_vars(ConnectTick)

(***************************************************************************)
(*                               CLAIMS                                    *)
(***************************************************************************)

Holders == { t \in Tasks : mpc[t] = "held" }

\* C1: in every reachable state of any interleaving of lock() polls,
\* try_lock() calls and guard drops, at most one MutexGuard of the mutex is
\* live (and the mutex is locked while it is).
C1_MutualExclusion ==
    /\ guards <= 1
    /\ Cardinality(Holders) <= 1
    /\ (guards = 1 => locked)

\* C1 witness: a guard is live after an earlier holder released the lock,
\* while another task's Lock is pending and a try_lock has just failed.
C1_Contended ==
    /\ guards = 1
    /\ mvalue >= 2
    /\ \E t, u \in Tasks : t # u /\ mpc[t] = "held" /\ mpc[u] = "pending"
    /\ mlast.op = "try_lock" /\ mlast.res = "None"

\* The result a ready inner output must be surfaced as.
Surfaced(r) == [kind |-> IF r.kind = "Ok" THEN "Ok" ELSE "Failed", v |-> r.v]

\* The last poll found the deadline reached: the Timeout was built with a
\* zero duration, or its deadline is at or before the clock of that poll.
PolledAtExpiry ==
    /\ polls >= 1
    /\ \/ builtDur = Some(0)
       \/ IsSome(deadline) /\ Unwrap(deadline) <= pollClock

InnerReadyAtPoll == InnerPoll(future, pollClock) # Pending

\* C8 as stated: a Timeout whose deadline is reached at its first poll
\* completes on that poll without suspension, and if the inner task is ready
\* on that poll its value is returned.
C8_ZeroTimeoutReturnsReadyValue ==
    (polls = 1 /\ PolledAtExpiry) =>
        /\ tres # Pending
        /\ tpc = "done"
        /\ yields = 0
        /\ (InnerReadyAtPoll => tres = Surfaced(InnerPoll(future, pollClock)))

\* C8 amended: a Timeout whose deadline is reached at its first poll completes
\* on that poll without suspension; if the inner task is ready on that poll,
\* its value is returned when extra_check is enabled (the default), and
\* Expired is returned after no_extra_check().
C8_ZeroTimeoutCompletes ==
    (polls = 1 /\ PolledAtExpiry) =>
        /\ tres # Pending
        /\ tpc = "done"
        /\ yields = 0
        /\ (InnerReadyAtPoll =>
                tres = IF extra_check
                         THEN Surfaced(InnerPoll(future, pollClock))
                         ELSE Expired)

\* C8 witness: timeout(Duration::ZERO, ready task) returned the value on its
\* first poll without a yield.
C8_ZeroReadyDone ==
    /\ tpc = "done"
    /\ polls = 1
    /\ yields = 0
    /\ builtDur = Some(0)
    /\ tres.kind = "Ok"

\* C9: a Timeout with zero duration, or with a deadline equal to now or in
\* the past, wrapping a task that is never ready returns Expired on its first
\* poll without suspension.
C9_ZeroTimeoutNeverReadyExpires ==
    (polls = 1 /\ PolledAtExpiry /\ NeverReady(future)) =>
        /\ tres = Expired
        /\ tpc = "done"
        /\ yields = 0

\* C9 witness: deadline(past instant, never-ready task) was polled once and
\* returned Expired.
C9_PastDeadlineExpired ==
    /\ polls = 1
    /\ NeverReady(future)
    /\ builtDur = None
    /\ Unwrap(deadline) < pollClock
    /\ tres = Expired
    /\ yields = 0

\* C10: for a Timeout with deadline D wrapping a never-ready task, every poll
\* made while clock < D returns Pending and registers the wake-at reason D;
\* Expired is returned only by a poll at clock >= D; and once the clock has
\* reached D the scheduler re-polls and the Timeout resolves to Expired.
C10_ExpiresOnlyAfterDeadline ==
    /\ [] ((polls >= 1 /\ NeverReady(future) /\ IsSome(deadline)
              /\ pollClock < Unwrap(deadline))
            => (tres = Pending /\ ctx_deadline = deadline
                  /\ tpc \in {"wait", "run"}))
    /\ [] ((NeverReady(future) /\ tres = Expired)
            => (IsSome(deadline) /\ pollClock >= Unwrap(deadline)))
    /\ ((NeverReady(future) /\ tpc \in {"wait", "run"} /\ IsSome(deadline)
              /\ clock >= Unwrap(deadline))
          ~> (tpc = "done" /\ tres = Expired))

\* C10 witness: timeout(d > 0, never-ready task) was polled before its
\* deadline more than once, suspended each time, and returned Expired from the
\* poll made when the clock had reached the deadline.
C10_ExpiredAfterWaiting ==
    /\ tpc = "done"
    /\ NeverReady(future)
    /\ tres = Expired
    /\ yields >= 2
    /\ IsSome(builtDur) /\ Unwrap(builtDur) > 0
    /\ pollClock = Unwrap(deadline)

NewSendOps == {"try_send", "send"}
SendOps == NewSendOps \cup {"send_resumed"}
RecvOps == {"try_recv", "recv", "recv_resumed"}

\* C2: the values returned by receives are exactly the sent values in the
\* order they were sent (the k-th value pushed is k), none lost, duplicated
\* or reordered, also after head/tail wrap around the ring.
C2_Fifo == \A i \in 1 .. Len(recvLog) : recvLog[i] = i

\* C3: with a live receiver a send succeeds without blocking while fewer than
\* N-1 values are queued, and blocks (try_send returns Full) exactly when N-1
\* values are queued.
C3_Capacity ==
    (clast.op \in SendOps /\ clast.rx > 0) =>
        (clast.res \in {"Full", "Blocked"} <=> clast.occ = N - 1)

\* C4: once the last Receiver is dropped every send fails Disconnected at
\* once (try_send and a new blocking send, also on a full buffer), and a
\* blocking send that was suspended on a full buffer when the last receiver
\* was dropped is resumed, so that no sender is left suspended in wait()
\* without a receiver, and returns Disconnected.
C4_SendAfterReceiversGone ==
    /\ [] ((clast.op \in NewSendOps /\ clast.rx = 0)
            => clast.res = "Disconnected")
    /\ [] (\A s \in Senders : ~(spc[s] = "wait" /\ rx_count = 0))
    /\ \A s \in Senders :
          (spc[s] \in {"wait", "woken"} /\ rx_count = 0)
            ~> (spc[s] = "idle" /\ clast.op = "send_resumed" /\ clast.who = s
                  /\ clast.res = "Disconnected")

\* C5: a completed receive returns the queued values in order also after all
\* senders are dropped; it reports Disconnected iff the sender count is zero
\* and no value is queued, and try_recv reports Empty iff no value is queued
\* while a sender exists.
C5_DrainAfterSendersGone ==
    (clast.op \in RecvOps /\ clast.res # "Blocked") =>
        /\ clast.res = "Disconnected" <=> (clast.tx = 0 /\ clast.occ = 0)
        /\ clast.op = "try_recv" =>
              (clast.res = "Empty" <=> (clast.tx > 0 /\ clast.occ = 0))
        /\ clast.res = "Ok" => clast.v = Len(recvLog)

\* C6: no receiver is left suspended in wait() (not released by a wake())
\* while a value is queued, and no sender while fewer than N-1 values are
\* queued; hence none stays suspended forever in such a state.
C6_NoMissedWakeup ==
    /\ [] (\A r \in Receivers : ~(rpc[r] = "wait" /\ Occupancy > 0))
    /\ [] (\A s \in Senders : ~(spc[s] = "wait" /\ Occupancy < N - 1))
    /\ \A r \in Receivers : []<>(~(rpc[r] = "wait" /\ Occupancy > 0))
    /\ \A s \in Senders : []<>(~(spc[s] = "wait" /\ Occupancy < N - 1))

\* C7: the ChannelBox is freed exactly once, by the drop that leaves no
\* Sender and no Receiver; never while a handle is live, never twice.
C7_FreedExactlyOnce ==
    /\ freed <= 1
    /\ freed = 1 <=> (Live(spc) = {} /\ Live(rpc) = {})
    /\ freed = 1 => (rx_count = 0 /\ tx_count = 0)
    /\ ~panicked

\* C7 witness: every handle, clones included, has been dropped while values
\* were still queued, and the box has been freed.
C7_AllDroppedAndFreed ==
    /\ freed = 1
    /\ \A s \in Senders : spc[s] = "gone"
    /\ \A r \in Receivers : rpc[r] = "gone"
    /\ Occupancy > 0

\* The deadline is reached at instant `now`.
ExpiredAt(now) == IsSome(deadline) /\ now >= Unwrap(deadline)

\* The step is a call of Timeout::poll.
IsPollStep == polls' = polls + 1

C12_NoExtraCheckSkipsInner ==
    /\ [][(IsPollStep /\ ~extra_check) =>
            IF ExpiredAt(clock)
              THEN /\ innerPolls' = innerPolls
                   /\ innerRes' = NotPolled
                   /\ tres' = Expired
              ELSE /\ innerPolls' = innerPolls + 1
                   /\ innerRes' = InnerPoll(future, clock)]_vars
    /\ [] ((~extra_check /\ polls >= 1 /\ innerRes # NotPolled)
            => ~ExpiredAt(pollClock))

\* C12 witness: a Timeout with no_extra_check() suspended before its deadline
\* and returned Expired from a poll at which the inner task would have been
\* Ready, without polling it.
C12_ExpiredThoughReady ==
    /\ tpc = "done"
    /\ ~extra_check
    /\ yields >= 1
    /\ tres = Expired
    /\ innerRes = NotPolled
    /\ InnerReadyAtPoll
    /\ innerPolls - prevRun.counter = polls - 1

\* The Timeout is timeout(d, Mock) with d > 0, as the test's timeout(_1_SEC, m).
IsOneSecMock(dur) == IsSome(dur) /\ Unwrap(dur) \in 1 .. MaxDur

\* C13: with one poll counter shared by both runs of the never-ready Mock,
\* each run first polled before its deadline and suspended until the deadline
\* (no other wake()): the run with no_extra_check() ends Expired with the
\* counter at 1, and the following run with the default extra_check ends
\* Expired with the counter at 2.
C13_ExtraCheckWorks ==
    (/\ runs = 1
     /\ ~prevRun.ec /\ IsOneSecMock(prevRun.dur) /\ prevRun.yields = 1
     /\ extra_check /\ IsOneSecMock(builtDur) /\ yields = 1 /\ tpc = "done"
     /\ signals = 0)
    => /\ prevRun.res = Expired
       /\ prevRun.counter = 1
       /\ tres = Expired
       /\ innerPolls = 2

\* C14: a Timeout whose deadline is None never returns Expired and registers
\* no wake-at reason when Pending; timeout(d, f) has deadline None exactly
\* when clock + d overflows, deadline() always has a deadline, and polling a
\* Timeout without a deadline ends in Pending or in the inner task's result.
C14_NoDeadlineNeverExpires ==
    /\ (deadline = None /\ polls >= 1) =>
          /\ tres.kind \in {"Pending", "Ok", "Failed"}
          /\ (tres = Pending => (ctx_deadline = None /\ tpc \in {"wait", "run"}))
          /\ (tres # Pending => tpc = "done")
    /\ (tpc # "none" /\ IsSome(builtDur)) =>
          (deadline = None <=> builtAt + Unwrap(builtDur) > InstantMax)
    /\ (tpc # "none" /\ builtDur = None) => IsSome(deadline)

\* C14 witness: timeout(Duration::MAX, never-ready task) was polled again
\* after a wake(), with the clock at its largest, and is still Pending with
\* no reason registered.
C14_DurationMaxStillPending ==
    /\ builtDur = Some(DurationMax)
    /\ deadline = None
    /\ NeverReady(future)
    /\ polls >= 2
    /\ pollClock = MaxClock
    /\ tres = Pending
    /\ ctx_deadline = None

\* C15: whenever Timeout::poll polled the inner task and it was Ready, the
\* result is Ok(v) for Ok(v) and Failed(e) for Err(e), whether or not the
\* deadline has passed; Expired is returned only by a poll on which the inner
\* task was not Ready or was not polled.
C15_FailedNeverConfusedWithExpired ==
    polls >= 1 =>
        /\ (innerRes.kind = "Ok" => tres = [kind |-> "Ok", v |-> innerRes.v])
        /\ (innerRes.kind = "Err" => tres = [kind |-> "Failed", v |-> innerRes.v])
        /\ (tres = Expired => innerRes \in {Pending, NotPolled})
        /\ (tres.kind \in {"Ok", "Failed"} => innerRes.kind \in {"Ok", "Err"})
        /\ (innerRes # NotPolled => innerRes = InnerPoll(future, pollClock))

\* C15 witness: the inner task failed on a poll made after the deadline had
\* passed, and Failed with its error was returned.
C15_FailedAfterDeadline ==
    /\ tpc = "done"
    /\ yields >= 1
    /\ IsSome(deadline) /\ pollClock > Unwrap(deadline)
    /\ innerRes.kind = "Err"
    /\ tres = [kind |-> "Failed", v |-> innerRes.v]

\* The step drops handle h.
IsDropStep(h) == hst[h] = "live" /\ hst'[h] = "dropped"

\* C16: for any sequence of close(), poll_close() and drops on any clones of a
\* TcpStream, a descriptor slot that is None stays None, the OS close is
\* invoked at most once and only on the stream's own socket, a drop that finds
\* the slot None touches no descriptor (also when the OS has reused the
\* number), and close never panics.
C16_ClosedAtMostOnce ==
    /\ [][\A c \in Handles : cells[c] = None => cells'[c] = None]_vars
    /\ [][\A h \in Handles :
            (IsDropStep(h) /\ cells[cellOf[h]] = None)
              => (osTable' = osTable /\ osCloses' = osCloses)]_vars
    /\ [] (osCloses <= 1 /\ stray = 0 /\ ~spanicked)

\* C16 witness: the stream was closed explicitly, the OS reused every
\* descriptor number for other files, and a handle of the stream was then
\* dropped.
C16_DropAfterCloseAndReuse ==
    /\ closedVia.op = "close"
    /\ slast.op = "drop"
    /\ slast.slot = None
    /\ osCloses = 1
    /\ \A n \in FdNums : osTable[n] = "other"

ClosedStreamOps == {"poll_read", "poll_write", "poll_flush", "poll_close", "close"}

\* C17 as stated: on a closed TcpStream every read, write, flush or close
\* attempt reports the 'already closed' error at once, makes no OS call and
\* registers no suspension reason.
C17_ClosedOpsReportClosed ==
    (slast.op \in ClosedStreamOps /\ slast.slot = None) =>
        /\ slast.res = "Err(closed)"
        /\ slast.sys = 0
        /\ slast.ctx = NoReason

\* C17 amended: on a closed TcpStream poll_read, poll_write, poll_flush and
\* poll_close report the 'already closed' error at once and close() returns
\* Ok(()); none of them makes an OS call or registers a suspension reason.
C17_ClosedOpsFailFast ==
    (slast.op \in ClosedStreamOps /\ slast.slot = None) =>
        /\ slast.res = IF slast.op = "close" THEN "Ok" ELSE "Err(closed)"
        /\ slast.sys = 0
        /\ slast.ctx = NoReason

\* C17 witness: close() was called on a stream already closed, after the OS
\* had reused its descriptor number, and returned Ok without an OS call.
C17_CloseOfClosed ==
    /\ slast.op = "close"
    /\ slast.slot = None
    /\ slast.res = "Ok"
    /\ slast.sys = 0
    /\ \A n \in FdNums : osTable[n] = "other"

LiveHandles == { h \in Handles : hst[h] = "live" }

\* C18: all clones of a TcpStream observe the same descriptor slot; once close
\* has been called through one of them every clone sees the stream closed, its
\* reads and writes fail at once without an OS call, and no OS call of the
\* stream ever reaches a descriptor that is not its socket.
C18_ClonesShareState ==
    /\ \A h, g \in LiveHandles : cells[cellOf[h]] = cells[cellOf[g]]
    /\ closedVia # NotClosed => \A h \in LiveHandles : cells[cellOf[h]] = None
    /\ (closedVia # NotClosed /\ slast.op \in {"poll_read", "poll_write"})
          => (slast.res = "Err(closed)" /\ slast.sys = 0)
    /\ stray = 0

\* C18 witness: the stream was closed through one clone and a read through
\* another clone then failed with 'already closed', the OS having reused the
\* descriptor number.
C18_ReadThroughOtherClone ==
    /\ closedVia.op \in {"close", "poll_close"}
    /\ slast.op = "poll_read"
    /\ slast.who # closedVia.who
    /\ slast.res = "Err(closed)"
    /\ \A n \in FdNums : osTable[n] = "other"

\* C19: the descriptor of a TcpStream stays open until close is called
\* explicitly or the last clone is dropped: the drop of one clone while other
\* clones are alive does not close it, and the remaining clones can still
\* read and write.
C19_OpenUntilLastDrop ==
    /\ closedVia.op = "drop" => closedVia.others = 0
    /\ (slast.op \in {"poll_read", "poll_write"} /\ slast.res = "Err(closed)")
          => closedVia.op \in {"close", "poll_close"}
             \/ (closedVia.op = "drop" /\ closedVia.others = 0)

\* C20: try_lock never suspends: it returns a guard and sets locked exactly
\* when the mutex is unlocked, and returns None leaving locked and the waker
\* list unchanged when the mutex is locked.
C20_TryLockNeverSuspends ==
    [][mlast'.op = "try_lock" =>
        LET t == mlast'.task
        IN  /\ mlast'.res = (IF locked THEN "None" ELSE "Some")
            /\ locked'
            /\ guards' = (IF locked THEN guards ELSE guards + 1)
            /\ mpc' = (IF locked THEN mpc ELSE [mpc EXCEPT ![t] = "held"])
            /\ mpc'[t] \in {"idle", "held"}
            /\ wakers' = wakers
            /\ mwoken' = mwoken
            /\ mvalue' = mvalue]_vars

\* C20 witness: try_lock returned a guard on a mutex released earlier, while
\* another task's Lock was still pending; and try_lock of a third task then
\* returned None.
C20_TryLockBoth ==
    /\ mlast = [op |-> "try_lock", task |-> 3, res |-> "None"]
    /\ mpc[1] = "held"
    /\ mpc[2] = "pending"
    /\ wakers = << >>
    /\ mvalue >= 1

NoDuplicates(ws) == \A i, j \in 1 .. Len(ws) : ws[i] = ws[j] => i = j

\* C21: dropping a MutexGuard leaves the mutex unlocked and the waker list
\* empty, and wakes every registered waker, each exactly once: the list never
\* holds two wakers that wake the same task, and every task with a Lock
\* future driven by a registered waker is due for a poll afterwards.
C21_GuardDropWakesAll ==
    /\ [](NoDuplicates(wakers) /\ (wakers # << >> => locked))
    /\ [][mlast'.op = "drop_guard" =>
            /\ locked /\ ~locked'
            /\ wakers' = << >>
            /\ mwoken' = mwoken \cup
                  { u \in Tasks : /\ mpc[u] \in {"new", "pending"}
                                  /\ \E i \in 1 .. Len(wakers) :
                                         wakers[i] = WakerOf(u) }]_vars

\* C21 witness: the guard of task 3 was dropped while the Locks of tasks 1
\* and 2, which share one waker, were pending: both are due for a poll.
C21_DropWokeSharedWaker ==
    /\ mlast = [op |-> "drop_guard", task |-> 3, res |-> "()"]
    /\ mpc[1] = "pending" /\ mpc[2] = "pending"
    /\ mwoken = {1, 2}
    /\ wakers = << >>
    /\ ~locked

\* C22: a Lock that is dropped after it returned Pending removes its waker
\* from the waker list: every waker in the list belongs to a Lock that is
\* still pending.
C22_DroppedLockDeregisters ==
    \A i \in 1 .. Len(wakers) :
        \E t \in Tasks : mpc[t] = "pending" /\ WakerOf(t) = wakers[i]

\* C23: creating, polling to Pending and dropping a Lock leave `locked` and
\* the live guard unchanged; a Lock polled while a guard is live returns
\* Pending, so the guard of another task is never released by it.
C23_LockWithoutGuardKeepsLocked ==
    /\ [][(\/ mlast'.op \in {"lock", "drop_lock"}
           \/ (mlast'.op = "poll" /\ mlast'.res = "Pending"))
          => /\ locked' = locked
             /\ guards' = guards
             /\ Holders' = Holders]_vars
    /\ [][(mlast'.op = "poll" /\ locked) => mlast'.res = "Pending"]_vars

\* C23 witness: the Lock of task 3 was dropped after it returned Pending
\* while task 1 holds the guard, and the mutex is still locked.
C23_PendingLockDropped ==
    /\ mlast = [op |-> "drop_lock", task |-> 3, res |-> "()"]
    /\ mpc[1] = "held" /\ mpc[2] = "idle"
    /\ wakers = << WakerOf(3) >>
    /\ locked /\ guards = 1

AllReleased == \A t \in Tasks : mprog[t] = "released"

\* C24: when every task locks the mutex, increments the value, suspends
\* while it holds the guard and then drops it, all tasks complete and the
\* value ends as the number of tasks: no deadlock, no lost update.
C24_ContentionCompletes ==
    /\ <>[](AllReleased /\ mvalue = NumTasks)
    /\ [](AllReleased => mvalue = NumTasks)

\* C24 witness: all tasks completed, the value is the number of tasks, and
\* the last task to complete had been suspended on the lock.
C24_AllDone ==
    /\ AllReleased
    /\ mvalue = NumTasks
    /\ mlast.op = "drop_guard"
    /\ ~locked /\ wakers = << >> /\ mwoken = {}

\* C25: every Lock that returned Pending while a guard was held is woken
\* when that guard is dropped: while the mutex is unlocked every pending
\* Lock is due for a poll, no Lock stays pending forever while the mutex is
\* unlocked, and of the woken Locks the one polled first gets the guard
\* while the ones polled after it register again.
C25_ReleaseWakesPending ==
    /\ [](~locked => \A t \in Tasks : mpc[t] = "pending" => t \in mwoken)
    /\ \A t \in Tasks :
          (mpc[t] = "pending" /\ ~locked) ~> ~(mpc[t] = "pending" /\ ~locked)
    /\ [][mlast'.op = "poll" =>
            LET t == mlast'.task
            IN  IF locked
                  THEN /\ mlast'.res = "Pending"
                       /\ mpc'[t] = "pending"
                       /\ \E i \in 1 .. Len(wakers') : wakers'[i] = WakerOf(t)
                  ELSE /\ mlast'.res = "Ready"
                       /\ mpc'[t] = "held"]_vars

\* C25 witness: of two Locks woken by the drop of a guard, one was polled
\* and got the guard, and the other was polled after it and is registered
\* again.
C25_SecondRegistersAgain ==
    /\ mlast = [op |-> "poll", task |-> 3, res |-> "Pending"]
    /\ mpc[2] = "held"
    /\ mprog[1] = "released"
    /\ wakers = << WakerOf(3) >>
    /\ mwoken = {}

\* C26: on an open stream poll_read and poll_write make one syscall and map
\* its outcome: a count (0 at end-of-stream included) gives Ready(Ok(count));
\* would-block gives Pending with a readiness reason for the stream's
\* descriptor, READ for a read and WRITE for a write; interrupted gives
\* Pending with a wake-at-now reason; any other error gives Ready(Err); a
\* reason is registered exactly when the result is Pending.
C26_IoOutcomeMapping ==
    (slast.op \in {"poll_read", "poll_write"} /\ slast.slot # None) =>
        LET n == Unwrap(slast.slot)
            flag == IF slast.op = "poll_read" THEN "READ" ELSE "WRITE"
        IN  /\ slast.sys = 1
            /\ slast.os \in {"0", "n", "WouldBlock", "Interrupted", "Other"}
            /\ slast.os = "0" => slast.res = "Ok(0)"
            /\ slast.os = "n" => slast.res = "Ok(n)"
            /\ slast.os = "WouldBlock" =>
                  /\ slast.res = "Pending"
                  /\ slast.ctx.kind = "coio_wait"
                  /\ slast.ctx.fd = n
                  /\ slast.ctx.flag = flag
            /\ slast.os = "Interrupted" =>
                  /\ slast.res = "Pending"
                  /\ slast.ctx.kind = "deadline"
                  /\ slast.ctx.at = clock
            /\ slast.os = "Other" => slast.res = "Err(os)"
            /\ slast.res = "Pending" <=> slast.ctx # NoReason

\* C26 witness: a write through a clone of the stream was interrupted and
\* registered the wake-at-now reason.
C26_InterruptedWrite ==
    /\ slast.op = "poll_write"
    /\ slast.who = 2
    /\ slast.slot # None
    /\ slast.os = "Interrupted"
    /\ slast.res = "Pending"
    /\ slast.ctx = WakeAt(clock)

Unresolved(i) == jpc = "wait" /\ ~Resolved(jres[i])

C28_SchedulerLoop ==
    /\ [][IsPollStep => (tpc' = "done" <=> tres' # Pending)]_vars
    /\ [][tpc = "done" => ~IsPollStep]_vars
    /\ [][IsPollStep => tpc \in {"built", "run"}]_vars
    /\ [][(tpc = "wait" /\ tpc' # "wait") =>
            /\ tpc' = "run"
            /\ \/ signals' = signals + 1
               \/ /\ IsSome(ctx_deadline)
                  /\ clock >= Unwrap(ctx_deadline)]_vars
    /\ (tpc = "wait" /\ IsSome(ctx_deadline) /\ clock >= Unwrap(ctx_deadline))
          ~> (tpc = "run")
    /\ (tpc = "run") ~> (tpc \in {"wait", "done"})

\* C28 witness: the loop returned Expired from its second poll, made at the
\* registered instant, without any wake().
C28_RepolledAtInstant ==
    /\ tpc = "done"
    /\ tres = Expired
    /\ polls = 2
    /\ signals = 0
    /\ deadline = Some(2)
    /\ pollClock = 2

\* C29: for every capacity N >= 2 and every state reached by pushes and
\* pops, len() equals the number of items pushed and not yet popped, and
\* is_full() holds exactly when advancing head by one (mod N) gives tail.
C29_RingArithmetic ==
    /\ len(head, tail, N) = Occupancy
    /\ is_full(head, tail, N) <=> ((head + 1) % N = tail)

\* C30: a successful send calls wake() exactly when no item was queued
\* before the push, a successful receive calls wake() exactly when N - 1
\* items (a full buffer) were queued before the pop, and an operation that
\* does not succeed never calls wake().
C30_WakeConditions ==
    /\ (clast.op \in SendOps /\ clast.res = "Ok") => (woke <=> clast.occ = 0)
    /\ (clast.op \in RecvOps /\ clast.res = "Ok") => (woke <=> clast.occ = N - 1)
    /\ clast.res # "Ok" => ~woke

\* C31: after any sequence of channel creation, clones and drops of Senders
\* and Receivers, tx_count is the number of live Sender handles and rx_count
\* the number of live Receiver handles (None, here 0, exactly when there is
\* none), and the underflow panic of dec is never reached.
C31_EndpointCounts ==
    /\ tx_count = Cardinality(Live(spc))
    /\ rx_count = Cardinality(Live(rpc))
    /\ ~panicked

\* C31 witness: two Senders are live after a clone, and one of two Receivers
\* has just been dropped.
C31_ClonedAndDropped ==
    /\ clast.op = "drop_rx"
    /\ tx_count = 2
    /\ rx_count = 1
    /\ \E r \in Receivers : rpc[r] = "gone"
    /\ freed = 0

\* The slots of [tail, head), cyclically.
CyclicRange(t, h, n) == { (t + k) % n : k \in 0 .. (((h + n - t) % n) - 1) }
Popped == SeqToSet(recvLog)
Stored(slots) == { data[i] : i \in slots } \ {0}

\* C32: every value pushed is moved out by exactly one pop or dropped exactly
\* once when the box is destroyed: no value is popped twice, until the box is
\* destroyed the values not yet popped are the ones held in the slots of
\* [tail, head) and no other slot holds a value, and the destructor, which
\* runs only with both counts zero, drops exactly the slots of [tail, head),
\* which hold exactly the values not popped.
C32_ValueLifetime ==
    /\ NoDuplicates(recvLog)
    /\ Popped \subseteq 1 .. pushes
    /\ Stored(CyclicRange(tail, head, N)) = (1 .. pushes) \ Popped
    /\ \A i \in 0 .. (N - 1) : data[i] # 0 <=> i \in CyclicRange(tail, head, N)
    /\ freed = 1 =>
          /\ rx_count = 0 /\ tx_count = 0
          /\ boxDropped = CyclicRange(tail, head, N)

\* C33: a failed non-blocking operation changes nothing: try_send returning
\* Disconnected or Full hands back the value it was given and leaves head,
\* tail, the buffer and both counts unchanged, and so does try_recv
\* returning Disconnected or Empty.
C33_FailedTryChangesNothing ==
    [][(\/ (clast'.op = "try_send" /\ clast'.res \in {"Disconnected", "Full"})
        \/ (clast'.op = "try_recv" /\ clast'.res \in {"Disconnected", "Empty"}))
       => /\ UNCHANGED << head, tail, data, rx_count, tx_count, pushes,
                          recvLog, spc, rpc >>
          /\ clast'.op = "try_send" => clast'.v = pushes + 1]_vars

\* C33 witness: try_send returned Full on a buffer that holds a value, after
\* a try_recv had returned Empty earlier.
C33_FullAfterEmpty ==
    /\ clast.op = "try_send" /\ clast.res = "Full"
    /\ Len(recvLog) >= 1
    /\ Occupancy = N - 1
    /\ head # tail

\* C34: a blocking send writes into the buffer only when, at the write, a
\* receiver exists and fewer than N - 1 values are queued; resumed from
\* wait() it suspends again while the buffer is full, and once the buffer is
\* not full it returns the value as an error if no receiver is left.
C34_SendWritesOnlyWhenSafe ==
    (clast.op \in {"send", "send_resumed"}) =>
        /\ clast.res = "Ok" => (clast.rx > 0 /\ clast.occ < N - 1)
        /\ (clast.op = "send_resumed" /\ clast.occ = N - 1)
              => clast.res = "Blocked"
        /\ (clast.op = "send_resumed" /\ clast.occ < N - 1 /\ clast.rx = 0)
              => clast.res = "Disconnected"

\* C36: a blocking recv suspended on an empty buffer is resumed and returns
\* Disconnected once the last Sender is dropped while the buffer is empty:
\* no receiver is left suspended in wait() with no sender and no value, and
\* every receiver in that situation ends idle with Disconnected.
C36_RecvAfterSendersGone ==
    /\ [] (\A r \in Receivers :
            ~(rpc[r] = "wait" /\ tx_count = 0 /\ Occupancy = 0))
    /\ \A r \in Receivers :
          (rpc[r] \in {"wait", "woken"} /\ tx_count = 0 /\ Occupancy = 0)
            ~> (rpc[r] = "idle" /\ clast.op = "recv_resumed" /\ clast.who = r
                  /\ clast.res = "Disconnected")

\* C38: whenever the mutex is unlocked its waker list is empty; a waker is
\* added only by a poll while the mutex is locked, and wakers are removed
\* only, and all of them, by the guard drop that unlocks the mutex.
C38_WakerListInvariant ==
    /\ [](~locked => wakers = << >>)
    /\ [][Len(wakers') > Len(wakers) =>
            /\ locked /\ locked'
            /\ mlast'.op = "poll" /\ mlast'.res = "Pending"
            /\ wakers' = Append(wakers, WakerOf(mlast'.task))]_vars
    /\ [][Len(wakers') < Len(wakers) =>
            /\ locked /\ ~locked'
            /\ mlast'.op = "drop_guard"
            /\ wakers' = << >>]_vars
    /\ [][(locked /\ ~locked') => wakers' = << >>]_vars

\* C38 witness: the guard drop of task 1 unlocked the mutex and removed the
\* two wakers that tasks 2 and 3 had added while it was locked.
C38_TwoWakersRemoved ==
    /\ mlast = [op |-> "drop_guard", task |-> 1, res |-> "()"]
    /\ mwoken = {2, 3}
    /\ mpc[2] = "pending" /\ mpc[3] = "pending"
    /\ ~locked
    /\ wakers = << >>

\* C39: formatting a MutexGuard with Debug or Display terminates: the call
\* reaches the fmt of the protected value without entering the guard's own
\* fmt again, and returns.
C39_GuardFmtTerminates ==
    mlast.op \in {"fmt_debug", "fmt_display"} => mlast.res = "Ok"

Polled == cnlast.op = "poll"
InTime == Polled /\ cnlast.elapsed < Unwrap(connector).timeout

\* What the Connector does whatever readiness reports: a poll that begins
\* with elapsed >= timeout returns the Timeout error; a poll that sees no
\* readiness or is interrupted returns Pending with a wake-at-now reason;
\* the Connector does not stay Pending forever and connect_timeout returns
\* exactly one of Ok, Timeout or an I/O error.
ConnectorResolves ==
    /\ [](Polled =>
            /\ cnlast.elapsed >= Unwrap(connector).timeout
                  => cnlast.res = "Err(Timeout)"
            /\ (InTime /\ cnlast.poll \in {"zero", "interrupted"})
                  => (cnlast.res = "Pending" /\ cnctx = Some(cnlast.at))
            /\ cnlast.res = "Pending" <=> cnpc \in {"wait", "run"}
            /\ cnpc = "done"
                  => (cnres = cnlast.res
                      /\ cnres \in {"Ok", "Err(Timeout)", "Err(IO)"}))
    /\ (cnpc \in {"run", "wait"}) ~> (cnpc = "done")

\* C35 as stated: the Connector always resolves, and a poll that sees
\* readiness resolves Ok, or an I/O error when POLLHUP is set and the socket
\* error option is non-zero.
C35_ConnectorReadyOkUnlessSoError ==
    /\ ConnectorResolves
    /\ []((InTime /\ cnlast.poll = "ready") =>
            cnlast.res = (IF cnlast.hup /\ cnlast.so = "nonzero"
                            THEN "Err(IO)" ELSE "Ok"))

\* C35, amended: the Connector always resolves, and a poll that sees
\* readiness resolves Ok, or an I/O error when POLLHUP is set and the socket
\* error option is non-zero or cannot be read.
C35_ConnectorAlwaysResolves ==
    /\ ConnectorResolves
    /\ []((InTime /\ cnlast.poll = "ready") =>
            cnlast.res = (IF cnlast.hup /\ cnlast.so \in {"nonzero", "fail"}
                            THEN "Err(IO)" ELSE "Ok"))

\* C35 witness: the Connector was polled again without any external event
\* after a poll that saw nothing, and resolved to the Timeout error.
C35_TimedOutAfterPending ==
    /\ cnpc = "done"
    /\ cnres = "Err(Timeout)"
    /\ cnlast.elapsed = MaxDur
    /\ Unwrap(connector).timeout = MaxDur
    /\ cnopen

\* C37: connect_timeout leaks no descriptor: whenever it has returned an
\* error after socket() made a descriptor, that descriptor is closed.
C37_NoDescriptorLeak ==
    (cnpc = "done" /\ cnres # "Ok" /\ IsSome(cnfd)) => ~cnopen

====
